---- MODULE Spec2Model ----
(***************************************************************************)
(* Model of the three single-page audio applications bart_model.py,        *)
(* w2v_bart.py and whisp_t5.py.  One Streamlit session is modelled: every  *)
(* user interaction reruns the whole script top to bottom; the position of *)
(* the script run is pc, and pc = "idle" is the rendered page waiting for  *)
(* the next interaction.  The external collaborators (temp-file I/O, the   *)
(* audio decoder, the transcription and the summarization models) are      *)
(* nondeterministic: each call either returns or raises.                   *)
(***************************************************************************)
EXTENDS Integers, Sequences, FiniteSets, TLC

VARIABLES
    variant,                \* which of the three scripts is running
    audio_source_option,    \* st.radio value
    uploaded_file,          \* st.file_uploader value
    recorded,               \* mic_recorder return value of this run
    clicked,                \* st.button("Process Audio") return value of this run
    session_state,          \* st.session_state
    fs,                     \* the temp directory: path -> who created the file
    pc,                     \* position of the script run
    temp_path,              \* script variable temp_path
    current_wav_temp_path,  \* script variable current_wav_temp_path (whisp_t5)
    temp_file,              \* name of the open NamedTemporaryFile
    transcript,             \* script variable transcript (bart_model, w2v_bart)
    msgs,                   \* st.error / st.warning elements of this run
    panels,                 \* result panels with download buttons of this run
    crashed,                \* an exception escaped the script run
    log,                    \* fallible calls made by this run, in order
    pdf                     \* generate_pdf call frame and document

vars == <<variant, audio_source_option, uploaded_file, recorded, clicked,
          session_state, fs, pc, temp_path, current_wav_temp_path, temp_file,
          transcript, msgs, panels, crashed, log, pdf>>

-----------------------------------------------------------------------------
(* Bounds *)

NumPaths == 2       \* names the temp directory can hand out
MaxLen == 2         \* longest text given to generate_pdf

-----------------------------------------------------------------------------
(* Values *)

None == "None"              \* Python None
Unbound == "Unbound"        \* a script variable not assigned in this run
Absent == "Absent"          \* a key not in st.session_state
NoFile == "NoFile"          \* no file at a path
Raise == "Raise"            \* a call raised
NotShown == "NotShown"      \* a panel that was not rendered

Variants == {"bart_model", "w2v_bart", "whisp_t5"}
Options == {"Upload Audio File", "Record Live Audio"}
Uploads == {"good", "corrupt"}           \* decodable / undecodable upload
Recordings == {"bytes", "empty"}         \* dict with 'bytes' / falsy non-None
AsrTexts == {"", "hello world", "good day"}
SummaryTexts == {"", "hi", "ok"}
Paths == {ToString(i) : i \in 1..NumPaths}

MIN_LENGTH == 40
MAX_LENGTH == 150

HasPdf == variant = "whisp_t5"

\* Python truthiness of an optional string
Truthy(s) == s \notin {None, Absent, ""}

\* a session field that holds no value
Unset(x) == x \in {None, Absent}

NoPanels == [transcript |-> NotShown, summary |-> NotShown, pdf |-> NotShown]

NoPdf == [pc |-> "none", transcript |-> <<>>, summary |-> <<>>,
          doc |-> <<>>, warnings |-> {}, raised |-> FALSE]

-----------------------------------------------------------------------------
(* Initial state: the page after the first script run, nothing supplied *)

InitSession(v) ==
    [audio_data_for_processing |-> None,
     transcript |-> IF v = "whisp_t5" THEN None ELSE Absent,
     summary |-> IF v = "whisp_t5" THEN None ELSE Absent]

Init ==
    /\ variant \in Variants
    /\ audio_source_option = "Upload Audio File"
    /\ uploaded_file = None
    /\ recorded = None
    /\ clicked = FALSE
    /\ session_state = InitSession(variant)
    /\ fs = [p \in Paths |-> NoFile]
    /\ pc = "idle"
    /\ temp_path = Unbound
    /\ current_wav_temp_path = Unbound
    /\ temp_file = None
    /\ transcript = Unbound
    /\ msgs = {}
    /\ panels = NoPanels
    /\ crashed = FALSE
    /\ log = <<>>
    /\ pdf = NoPdf

-----------------------------------------------------------------------------
(* User interactions: each one starts a script rerun *)

\* a rerun starts with fresh script variables and an empty page
Rerun ==
    /\ pc = "idle"
    /\ pc' = "input"
    /\ temp_path' = Unbound
    /\ current_wav_temp_path' = Unbound
    /\ temp_file' = None
    /\ transcript' = Unbound
    /\ msgs' = {}
    /\ panels' = NoPanels
    /\ crashed' = FALSE
    /\ log' = <<>>
    /\ UNCHANGED <<variant, session_state, fs, pdf>>

\* the radio is switched; the uploader is only rendered in the upload branch
SelectInputMethod ==
    /\ Rerun
    /\ \E o \in Options \ {audio_source_option} : audio_source_option' = o
    /\ uploaded_file' = None
    /\ recorded' = None
    /\ clicked' = FALSE

\* a file is put into (or removed from) the uploader
UploadFile ==
    /\ Rerun
    /\ audio_source_option = "Upload Audio File"
    /\ \E f \in (Uploads \cup {None}) \ {uploaded_file} : uploaded_file' = f
    /\ recorded' = None
    /\ clicked' = FALSE
    /\ UNCHANGED audio_source_option

\* the microphone component delivers a recording (just_once: this run only)
FinishRecording ==
    /\ Rerun
    /\ audio_source_option = "Record Live Audio"
    /\ \E r \in Recordings : recorded' = r
    /\ clicked' = FALSE
    /\ UNCHANGED <<audio_source_option, uploaded_file>>

\* the Process Audio button is clicked
ClickProcess ==
    /\ Rerun
    /\ clicked' = TRUE
    /\ recorded' = None
    /\ UNCHANGED <<audio_source_option, uploaded_file>>

\* a rendered download button is clicked
ClickDownload ==
    /\ \E k \in {"transcript", "summary"} : panels[k] # NotShown
    /\ Rerun
    /\ clicked' = FALSE
    /\ recorded' = None
    /\ UNCHANGED <<audio_source_option, uploaded_file>>

-----------------------------------------------------------------------------
(* The temp directory *)

FreePaths == {p \in Paths : fs[p] = NoFile}

\* os.path.exists
Exists(p) == p \in Paths /\ fs[p] # NoFile

\* the finally block of a staging operation, reading path variable tp:
\* the name lookup fails for a variable never assigned in this run
CleanupRaises(tp) == tp = Unbound

CleanupFs(tp) ==
    IF tp # None /\ Exists(tp) THEN [fs EXCEPT ![tp] = NoFile] ELSE fs

\* an exception escapes the script: the run ends where it is
Crash ==
    /\ crashed' = TRUE
    /\ pc' = "idle"

-----------------------------------------------------------------------------
(* Input section of the script *)

\* upload branch taken with a file in the uploader
UploadBranch ==
    /\ pc = "input"
    /\ audio_source_option = "Upload Audio File"
    /\ uploaded_file # None
    /\ temp_path' = IF variant = "whisp_t5" THEN None ELSE temp_path
    /\ pc' = "upload_create"
    /\ UNCHANGED <<variant, audio_source_option, uploaded_file, recorded,
                   clicked, session_state, fs, current_wav_temp_path,
                   temp_file, transcript, msgs, panels, crashed, log, pdf>>

\* upload branch taken with an empty uploader
NoUpload ==
    /\ pc = "input"
    /\ audio_source_option = "Upload Audio File"
    /\ uploaded_file = None
    /\ pc' = "button"
    /\ UNCHANGED <<variant, audio_source_option, uploaded_file, recorded,
                   clicked, session_state, fs, temp_path,
                   current_wav_temp_path, temp_file, transcript, msgs,
                   panels, crashed, log, pdf>>

\* tempfile.NamedTemporaryFile(delete=False) for the upload
UploadCreate ==
    /\ pc = "upload_create"
    /\ \/ \E p \in FreePaths :
             /\ fs' = [fs EXCEPT ![p] = "upload"]
             /\ temp_file' = p
             /\ pc' = "upload_write"
             /\ UNCHANGED log
       \/ /\ pc' = "upload_except"
          /\ log' = Append(log, [op |-> "upload_stage", ret |-> Raise])
          /\ UNCHANGED <<fs, temp_file>>
    /\ UNCHANGED <<variant, audio_source_option, uploaded_file, recorded,
                   clicked, session_state, temp_path, current_wav_temp_path,
                   transcript, msgs, panels, crashed, pdf>>

\* temp_upload_file.write(uploaded_file.read()); temp_path = name
UploadWrite ==
    /\ pc = "upload_write"
    /\ \/ /\ temp_path' = temp_file
          /\ log' = Append(log, [op |-> "upload_stage", ret |-> temp_file])
          /\ pc' = "upload_decode"
       \/ /\ pc' = "upload_except"
          /\ log' = Append(log, [op |-> "upload_stage", ret |-> Raise])
          /\ UNCHANGED temp_path
    /\ temp_file' = None
    /\ UNCHANGED <<variant, audio_source_option, uploaded_file, recorded,
                   clicked, session_state, fs, current_wav_temp_path,
                   transcript, msgs, panels, crashed, pdf>>

\* AudioSegment.from_file, export to an in-memory WAV, store it
UploadDecode ==
    /\ pc = "upload_decode"
    /\ IF uploaded_file = "good"
       THEN /\ session_state' =
                 [session_state EXCEPT !.audio_data_for_processing = "upload"]
            /\ log' = Append(log, [op |-> "decode", arg |-> temp_path,
                                   ret |-> "upload"])
            /\ pc' = "upload_finally"
       ELSE /\ log' = Append(log, [op |-> "decode", arg |-> temp_path,
                                   ret |-> Raise])
            /\ pc' = "upload_except"
            /\ UNCHANGED session_state
    /\ UNCHANGED <<variant, audio_source_option, uploaded_file, recorded,
                   clicked, fs, temp_path, current_wav_temp_path, temp_file,
                   transcript, msgs, panels, crashed, pdf>>

\* the audio left in the session by the except clause of the upload branch
UploadExceptAudio ==
    IF variant = "whisp_t5" THEN None
    ELSE session_state.audio_data_for_processing

\* except Exception of the upload branch
UploadExcept ==
    /\ pc = "upload_except"
    /\ msgs' = msgs \cup {"Error processing uploaded file"}
    /\ session_state' =
          [session_state EXCEPT !.audio_data_for_processing = UploadExceptAudio]
    /\ pc' = "upload_finally"
    /\ UNCHANGED <<variant, audio_source_option, uploaded_file, recorded,
                   clicked, fs, temp_path, current_wav_temp_path, temp_file,
                   transcript, panels, crashed, log, pdf>>

\* finally of the upload branch
UploadFinally ==
    /\ pc = "upload_finally"
    /\ IF CleanupRaises(temp_path)
       THEN /\ Crash
            /\ UNCHANGED fs
       ELSE /\ fs' = CleanupFs(temp_path)
            /\ pc' = "button"
            /\ UNCHANGED crashed
    /\ UNCHANGED <<variant, audio_source_option, uploaded_file, recorded,
                   clicked, session_state, temp_path, current_wav_temp_path,
                   temp_file, transcript, msgs, panels, log, pdf>>

\* the audio left in the session when the recorder returned a falsy value
RecordFailedAudio ==
    IF variant = "whisp_t5" THEN None
    ELSE session_state.audio_data_for_processing

\* record branch
RecordBranch ==
    /\ pc = "input"
    /\ audio_source_option = "Record Live Audio"
    /\ CASE recorded = "bytes" ->
              /\ session_state' =
                    [session_state EXCEPT !.audio_data_for_processing = "recorded"]
              /\ UNCHANGED msgs
         [] recorded = None ->
              UNCHANGED <<session_state, msgs>>
         [] OTHER ->
              /\ session_state' =
                    [session_state EXCEPT
                        !.audio_data_for_processing = RecordFailedAudio]
              /\ msgs' = msgs \cup {"Recording failed or was empty"}
    /\ pc' = "button"
    /\ UNCHANGED <<variant, audio_source_option, uploaded_file, recorded,
                   clicked, fs, temp_path, current_wav_temp_path, temp_file,
                   transcript, panels, crashed, log, pdf>>

-----------------------------------------------------------------------------
(* Process Audio handler *)

\* the path variable of the Process staging
ProcessPathVar ==
    IF variant = "whisp_t5" THEN current_wav_temp_path ELSE temp_path

\* variation of ProcessEnterSession: no variant clears the previous results
ProcessEnterSessionKeeps == session_state

\* st.session_state when the handler is entered ("Clear previous results")
ProcessEnterSession ==
    IF variant = "whisp_t5"
    THEN [session_state EXCEPT !.transcript = None, !.summary = None]
    ELSE session_state

\* the button was not clicked in this run
NoProcess ==
    /\ pc = "button"
    /\ ~clicked
    /\ pc' = "render"
    /\ UNCHANGED <<variant, audio_source_option, uploaded_file, recorded,
                   clicked, session_state, fs, temp_path,
                   current_wav_temp_path, temp_file, transcript, msgs,
                   panels, crashed, log, pdf>>

\* clicked with no audio in the session
ProcessNoAudio ==
    /\ pc = "button"
    /\ clicked
    /\ session_state.audio_data_for_processing = None
    /\ session_state' = ProcessEnterSession
    /\ transcript' = IF variant = "whisp_t5" THEN transcript ELSE None
    /\ msgs' = msgs \cup {"Please upload or record audio before processing"}
    /\ pc' = "render"
    /\ UNCHANGED <<variant, audio_source_option, uploaded_file, recorded,
                   clicked, fs, temp_path, current_wav_temp_path, temp_file,
                   panels, crashed, log, pdf>>

\* clicked with audio in the session
ProcessBegin ==
    /\ pc = "button"
    /\ clicked
    /\ session_state.audio_data_for_processing # None
    /\ session_state' = ProcessEnterSession
    /\ transcript' = IF variant = "whisp_t5" THEN transcript ELSE None
    /\ current_wav_temp_path' =
          IF variant = "whisp_t5" THEN None ELSE current_wav_temp_path
    /\ pc' = "proc_create"
    /\ UNCHANGED <<variant, audio_source_option, uploaded_file, recorded,
                   clicked, fs, temp_path, temp_file, msgs, panels, crashed,
                   log, pdf>>

\* tempfile.NamedTemporaryFile(delete=False, suffix=".wav")
ProcCreate ==
    /\ pc = "proc_create"
    /\ \/ \E p \in FreePaths :
             /\ fs' = [fs EXCEPT ![p] = "process"]
             /\ temp_file' = p
             /\ pc' = "proc_write"
             /\ UNCHANGED log
       \/ /\ pc' = "proc_except"
          /\ log' = Append(log, [op |-> "stage", ret |-> Raise])
          /\ UNCHANGED <<fs, temp_file>>
    /\ UNCHANGED <<variant, audio_source_option, uploaded_file, recorded,
                   clicked, session_state, temp_path, current_wav_temp_path,
                   transcript, msgs, panels, crashed, pdf>>

\* temp_file.write(audio.read()); <path variable> = temp_file.name
ProcWrite ==
    /\ pc = "proc_write"
    /\ \/ /\ IF variant = "whisp_t5"
             THEN current_wav_temp_path' = temp_file /\ UNCHANGED temp_path
             ELSE temp_path' = temp_file /\ UNCHANGED current_wav_temp_path
          /\ log' = Append(log, [op |-> "stage", ret |-> temp_file])
          /\ pc' = "proc_transcribe"
       \/ /\ pc' = "proc_except"
          /\ log' = Append(log, [op |-> "stage", ret |-> Raise])
          /\ UNCHANGED <<temp_path, current_wav_temp_path>>
    /\ temp_file' = None
    /\ UNCHANGED <<variant, audio_source_option, uploaded_file, recorded,
                   clicked, session_state, fs, transcript, msgs, panels,
                   crashed, pdf>>

\* the transcript panel rendered inside the handler
HandlerTranscriptPanel(t) ==
    IF variant = "whisp_t5" THEN [panels EXCEPT !.transcript = t] ELSE panels

\* the transcription adapter is called on the staged path
Transcribe ==
    /\ pc = "proc_transcribe"
    /\ \/ \E t \in AsrTexts :
             /\ log' = Append(log, [op |-> "asr", arg |-> ProcessPathVar,
                                    staged |-> Exists(ProcessPathVar),
                                    ret |-> t])
             /\ transcript' = IF variant = "whisp_t5" THEN transcript ELSE t
             /\ session_state' = [session_state EXCEPT !.transcript = t]
             /\ panels' = HandlerTranscriptPanel(t)
             /\ pc' = "proc_finally"
       \/ /\ log' = Append(log, [op |-> "asr", arg |-> ProcessPathVar,
                                 staged |-> Exists(ProcessPathVar),
                                 ret |-> Raise])
          /\ pc' = "proc_except"
          /\ UNCHANGED <<transcript, session_state, panels>>
    /\ UNCHANGED <<variant, audio_source_option, uploaded_file, recorded,
                   clicked, fs, temp_path, current_wav_temp_path, temp_file,
                   msgs, crashed, pdf>>

\* except Exception of the transcription block
ProcExcept ==
    /\ pc = "proc_except"
    /\ msgs' = msgs \cup {"Transcription failed"}
    /\ pc' = "proc_finally"
    /\ UNCHANGED <<variant, audio_source_option, uploaded_file, recorded,
                   clicked, session_state, fs, temp_path,
                   current_wav_temp_path, temp_file, transcript, panels,
                   crashed, log, pdf>>

\* finally of the transcription block
ProcFinally ==
    /\ pc = "proc_finally"
    /\ IF CleanupRaises(ProcessPathVar)
       THEN /\ Crash
            /\ UNCHANGED fs
       ELSE /\ fs' = CleanupFs(ProcessPathVar)
            /\ pc' = "summarize"
            /\ UNCHANGED crashed
    /\ UNCHANGED <<variant, audio_source_option, uploaded_file, recorded,
                   clicked, session_state, temp_path, current_wav_temp_path,
                   temp_file, transcript, msgs, panels, log, pdf>>

\* variation of SummarizerInput: every variant reads the stored transcript
SummarizerInputFromSession == session_state.transcript

\* the text the summarizer is given
SummarizerInput ==
    IF variant = "whisp_t5" THEN session_state.transcript ELSE transcript

\* the summary panel rendered inside the handler
HandlerSummaryPanel(s) ==
    IF variant = "whisp_t5" THEN [panels EXCEPT !.summary = s] ELSE panels

\* the summarization adapter is called on a non-empty transcript
Summarize ==
    /\ pc = "summarize"
    /\ Truthy(SummarizerInput)
    /\ \/ \E s \in SummaryTexts :
             /\ log' = Append(log, [op |-> "sum", arg |-> SummarizerInput,
                                    max_length |-> MAX_LENGTH,
                                    min_length |-> MIN_LENGTH, ret |-> s])
             /\ session_state' = [session_state EXCEPT !.summary = s]
             /\ panels' = HandlerSummaryPanel(s)
             /\ UNCHANGED msgs
       \/ /\ log' = Append(log, [op |-> "sum", arg |-> SummarizerInput,
                                 max_length |-> MAX_LENGTH,
                                 min_length |-> MIN_LENGTH, ret |-> Raise])
          /\ msgs' = msgs \cup {"Summarization failed"}
          /\ UNCHANGED <<session_state, panels>>
    /\ pc' = "render"
    /\ UNCHANGED <<variant, audio_source_option, uploaded_file, recorded,
                   clicked, fs, temp_path, current_wav_temp_path, temp_file,
                   transcript, crashed, pdf>>

\* no transcript to summarize
SkipSummarize ==
    /\ pc = "summarize"
    /\ ~Truthy(SummarizerInput)
    /\ msgs' = IF variant = "whisp_t5"
               THEN msgs \cup {"Skipping summarization"} ELSE msgs
    /\ pc' = "render"
    /\ UNCHANGED <<variant, audio_source_option, uploaded_file, recorded,
                   clicked, session_state, fs, temp_path,
                   current_wav_temp_path, temp_file, transcript, panels,
                   crashed, log, pdf>>

-----------------------------------------------------------------------------
(* Tail of the script *)

\* the panels the tail of the script renders from st.session_state
StoredPanels ==
    IF variant = "whisp_t5" THEN panels
    ELSE [panels EXCEPT
             !.transcript = IF session_state.transcript # Absent
                            THEN session_state.transcript ELSE NotShown,
             !.summary = IF session_state.summary # Absent
                         THEN session_state.summary ELSE NotShown]

\* "Show stored results" and the footer; the page is complete
Render ==
    /\ pc = "render"
    /\ panels' = StoredPanels
    /\ pc' = "idle"
    /\ UNCHANGED <<variant, audio_source_option, uploaded_file, recorded,
                   clicked, session_state, fs, temp_path,
                   current_wav_temp_path, temp_file, transcript, msgs,
                   crashed, log, pdf>>

Next ==
    \/ SelectInputMethod
    \/ UploadFile
    \/ FinishRecording
    \/ ClickProcess
    \/ ClickDownload
    \/ UploadBranch
    \/ NoUpload
    \/ UploadCreate
    \/ UploadWrite
    \/ UploadDecode
    \/ UploadExcept
    \/ UploadFinally
    \/ RecordBranch
    \/ NoProcess
    \/ ProcessNoAudio
    \/ ProcessBegin
    \/ ProcCreate
    \/ ProcWrite
    \/ Transcribe
    \/ ProcExcept
    \/ ProcFinally
    \/ Summarize
    \/ SkipSummarize
    \/ Render

Spec == Init /\ [][Next]_vars

-----------------------------------------------------------------------------
(* generate_pdf (whisp_t5).  Texts are sequences of Unicode code points.    *)
(* The built-in PDF font is latin-1 encoded; as the function's comments     *)
(* state, multi_cell raises UnicodeEncodeError for a text it cannot encode. *)

Chars == {65, 63, 233, 8364}        \* "A", "?", e-acute, euro sign
NoneText == <<-1>>                  \* None passed as summary

TextsUpTo(n) == UNION {[1..k -> Chars] : k \in 0..n}

\* the code point has a latin-1 byte
InLatin1(c) == c >= 0 /\ c <= 255

\* variation of EncodeLatin1Replace: errors='ignore' drops the character
EncodeLatin1Ignore(text) == SelectSeq(text, InLatin1)

\* text.encode('latin-1', 'replace'): one byte per character, "?" for a
\* character that has no latin-1 byte
EncodeLatin1Replace(text) ==
    [i \in 1..Len(text) |-> IF InLatin1(text[i]) THEN text[i] ELSE 63]

\* bytes.decode('latin-1'): byte b is code point b
DecodeLatin1(bytes) == [i \in 1..Len(bytes) |-> bytes[i]]

\* pdf.multi_cell(0, 10, text) raises UnicodeEncodeError
MultiCellRaises(text) == \E i \in 1..Len(text) : ~InLatin1(text[i])

\* if summary:
PdfTruthy(text) == text # NoneText /\ text # <<>>

\* one try / except UnicodeEncodeError block writing a text onto document d:
\* the document, whether the warning was issued, whether an exception
\* leaves the block
WriteSection(d, text) ==
    IF ~MultiCellRaises(text)
    THEN [doc |-> Append(d, [cell |-> "text", text |-> text]),
          warned |-> FALSE, raised |-> FALSE]
    ELSE LET replaced == DecodeLatin1(EncodeLatin1Replace(text))
         IN  IF ~MultiCellRaises(replaced)
             THEN [doc |-> Append(d, [cell |-> "text", text |-> replaced]),
                   warned |-> TRUE, raised |-> FALSE]
             ELSE [doc |-> d, warned |-> TRUE, raised |-> TRUE]

Heading(title) == [cell |-> title, text |-> <<>>]

MainUnchanged ==
    UNCHANGED <<variant, audio_source_option, uploaded_file, recorded,
                clicked, session_state, fs, pc, temp_path,
                current_wav_temp_path, temp_file, transcript, msgs, panels,
                crashed, log>>

\* heading and text of the transcript section
PdfTranscriptSection ==
    /\ pdf.pc = "transcript"
    /\ LET w == WriteSection(Append(pdf.doc, Heading("--- Transcript ---")),
                             pdf.transcript)
       IN  pdf' = [pdf EXCEPT
                      !.doc = w.doc,
                      !.warnings = IF w.warned THEN @ \cup {"transcript"} ELSE @,
                      !.raised = w.raised,
                      !.pc = IF w.raised THEN "raised" ELSE "summary"]
    /\ MainUnchanged

\* heading and text of the summary section
PdfSummarySection ==
    /\ pdf.pc = "summary"
    /\ PdfTruthy(pdf.summary)
    /\ LET w == WriteSection(Append(pdf.doc, Heading("--- Summary ---")),
                             pdf.summary)
       IN  pdf' = [pdf EXCEPT
                      !.doc = w.doc,
                      !.warnings = IF w.warned THEN @ \cup {"summary"} ELSE @,
                      !.raised = w.raised,
                      !.pc = IF w.raised THEN "raised" ELSE "output"]
    /\ MainUnchanged

\* no summary: the section is left out
PdfNoSummary ==
    /\ pdf.pc = "summary"
    /\ ~PdfTruthy(pdf.summary)
    /\ pdf' = [pdf EXCEPT !.pc = "output"]
    /\ MainUnchanged

\* return pdf.output(dest='S')
PdfOutput ==
    /\ pdf.pc = "output"
    /\ pdf' = [pdf EXCEPT !.pc = "returned"]
    /\ MainUnchanged

InitPdf ==
    /\ variant = "whisp_t5"
    /\ audio_source_option = "Upload Audio File"
    /\ uploaded_file = None
    /\ recorded = None
    /\ clicked = FALSE
    /\ session_state = InitSession(variant)
    /\ fs = [p \in Paths |-> NoFile]
    /\ pc = "idle"
    /\ temp_path = Unbound
    /\ current_wav_temp_path = Unbound
    /\ temp_file = None
    /\ transcript = Unbound
    /\ msgs = {}
    /\ panels = NoPanels
    /\ crashed = FALSE
    /\ log = <<>>
    /\ \E t \in TextsUpTo(MaxLen), s \in TextsUpTo(MaxLen) \cup {NoneText} :
          pdf = [pc |-> "transcript", transcript |-> t, summary |-> s,
                 doc |-> <<>>, warnings |-> {}, raised |-> FALSE]

NextPdf ==
    \/ PdfTranscriptSection
    \/ PdfSummarySection
    \/ PdfNoSummary
    \/ PdfOutput

SpecPdf == InitPdf /\ [][NextPdf]_vars

-----------------------------------------------------------------------------
(* Properties *)

\* the calls of kind o this run has made, in order
Calls(o) == SelectSeq(log, LAMBDA e : e.op = o)

Called(o) == Len(Calls(o)) > 0

\* a call of kind o raised in this run
Raised(o) == \E i \in 1..Len(log) : log[i].op = o /\ log[i].ret = Raise

\* a call of kind o returned in this run
Returned(o) == \E i \in 1..Len(log) : log[i].op = o /\ log[i].ret # Raise

\* the script run is over and the page is waiting for the user
Finished == pc = "idle"

\* C1: the session never holds a populated summary while its transcript is
\* unset or empty.
SummaryNeedsTranscript ==
    Truthy(session_state.summary) => Truthy(session_state.transcript)

\* C2: once a script run has finished, no file created by one of its staging
\* operations (upload staging, Process staging) still exists, whatever the
\* outcome of the staging and of the call that used the file.
StagedFilesRemoved ==
    Finished => \A p \in Paths : fs[p] = NoFile

\* C3: if the transcription adapter raised in a Process action, the
\* summarizer was not invoked in it, an error is shown, and afterwards the
\* session transcript and the session summary are unset.
TranscriptionFailureLeavesUnset ==
    (Finished /\ Raised("asr")) =>
        /\ ~Called("sum")
        /\ "Transcription failed" \in msgs
        /\ Unset(session_state.transcript)
        /\ Unset(session_state.summary)

\* C4: if transcription returned and the summarizer then raised in the same
\* Process action, afterwards the session transcript is this action's
\* transcript and the session summary is unset.
SummarizerFailureKeepsTranscriptOnly ==
    (Finished /\ Raised("sum")) =>
        /\ \E i \in 1..Len(log) :
              log[i].op = "asr" /\ log[i].ret = session_state.transcript
        /\ Unset(session_state.summary)

\* C5: if decoding an uploaded file failed in a script run, an error is
\* shown, the session audio is unset afterwards, and a Process click of that
\* run invokes no adapter.
DecodeFailureUnsetsAudio ==
    (Finished /\ Raised("decode")) =>
        /\ "Error processing uploaded file" \in msgs
        /\ session_state.audio_data_for_processing = None
        /\ ~Called("asr") /\ ~Called("sum")

\* C6: no exception escapes a script run; every failed step (upload staging,
\* decode, Process staging, transcription, summarization) has its message on
\* the page, and a failed Process staging halts the pipeline.
EveryFailureReported ==
    /\ ~crashed
    /\ Finished =>
          /\ (Raised("upload_stage") \/ Raised("decode"))
                => "Error processing uploaded file" \in msgs
          /\ (Raised("stage") \/ Raised("asr"))
                => "Transcription failed" \in msgs
          /\ Raised("stage") => (~Called("asr") /\ ~Called("sum"))
          /\ Raised("sum") => "Summarization failed" \in msgs

\* the parts of C7 that do not depend on the outcome of the staging
PipelineOrder ==
    /\ Len(Calls("stage")) <= 1
    /\ Len(Calls("asr")) <= 1
    /\ Len(Calls("sum")) <= 1
    /\ ~clicked => (~Called("stage") /\ ~Called("asr") /\ ~Called("sum"))
    /\ \A i \in 1..Len(log) :
          log[i].op = "asr" =>
             /\ log[i].staged
             /\ \E j \in 1..(i - 1) :
                   log[j].op = "stage" /\ log[j].ret = log[i].arg
    /\ \A i \in 1..Len(log) :
          log[i].op = "sum" =>
             /\ log[i].min_length = 40
             /\ log[i].max_length = 150
             /\ \E j \in 1..(i - 1) :
                   /\ log[j].op = "asr"
                   /\ log[j].ret # Raise
                   /\ log[j].ret = log[i].arg
    /\ \A i \in 1..Len(log) :
          (log[i].op = "asr" /\ log[i].ret # Raise /\ pc # "proc_transcribe")
             => session_state.transcript = log[i].ret
    /\ \A i \in 1..Len(log) :
          (log[i].op = "sum" /\ log[i].ret # Raise)
             => session_state.summary = log[i].ret

\* C7 (as stated): in every finished Process action that had audio, the
\* audio was staged first, the transcription adapter was invoked exactly
\* once on the staged path, the summarizer at most once, after the
\* transcription returned, with the returned transcript and bounds 40/150,
\* the session holds the adapter outputs, and no adapter runs without a click.
ProcessInvokesAsrExactlyOnce ==
    /\ PipelineOrder
    /\ (Finished /\ Called("stage")) => Len(Calls("asr")) = 1

\* C7 (amended): as above, but the transcription adapter is invoked exactly
\* once when the staging succeeded and not at all when the staging failed.
ProcessInvokesAsrOnceIfStaged ==
    /\ PipelineOrder
    /\ (Returned("stage") /\ pc # "proc_transcribe") => Len(Calls("asr")) = 1
    /\ Raised("stage") => ~Called("asr")

\* a Process action ran both adapters to completion
FullPipelineRan ==
    /\ Finished
    /\ Returned("stage") /\ Returned("asr") /\ Returned("sum")
    /\ Truthy(session_state.summary)

\* C8: in the PDF variant, a page rendered by a Process action that stored a
\* transcript offers the PDF export.
PdfExportOffered ==
    (HasPdf /\ Finished /\ ~crashed /\ Returned("asr"))
        => panels.pdf # NotShown

\* no page of any variant offers the PDF export or has called generate_pdf
NoPdfExportAnywhere ==
    panels.pdf = NotShown /\ pdf = NoPdf

\* C10: on every completed page render, each result panel with its download
\* button is offered exactly when the session stores that result, and the
\* download data is the stored string.
PanelsFollowStore ==
    (Finished /\ ~crashed) =>
        \A k \in {"transcript", "summary"} :
            /\ (panels[k] # NotShown) <=> ~Unset(session_state[k])
            /\ (panels[k] # NotShown) => panels[k] = session_state[k]

\* text out is text src with every character outside latin-1 replaced by "?"
Substituted(src, out) ==
    /\ Len(out) = Len(src)
    /\ \A i \in 1..Len(src) :
          out[i] = (IF src[i] <= 255 THEN src[i] ELSE 63)

HasUnrepresentable(text) == \E i \in 1..Len(text) : text[i] > 255

ProcessWithoutAudio ==
    pc = "button" /\ clicked /\ session_state.audio_data_for_processing = None

\* what a Process click without audio leaves alone in every variant: it
\* shows the warning, stages no file, invokes no adapter, keeps the audio
ProcessWithoutAudioWarnsOnly ==
    /\ "Please upload or record audio before processing" \in msgs'
    /\ fs' = fs
    /\ log' = log
    /\ session_state'.audio_data_for_processing = None

\* C12 (as stated): a Process click while no audio is stored shows a warning,
\* stages no file, invokes no adapter and leaves the stored audio, transcript
\* and summary exactly as they were.
ProcessWithoutAudioChangesNothing ==
    [][ProcessWithoutAudio =>
          (ProcessWithoutAudioWarnsOnly /\ session_state' = session_state)]_vars

\* C12 (amended): a Process click while no audio is stored shows a warning,
\* stages no file, invokes no adapter and keeps the audio unset; the stored
\* transcript and summary are kept in bart_model and w2v_bart and are reset
\* to unset in whisp_t5.
ProcessWithoutAudioClearsOnlyInWhisp ==
    [][ProcessWithoutAudio =>
          /\ ProcessWithoutAudioWarnsOnly
          /\ IF variant = "whisp_t5"
             THEN session_state' = [session_state EXCEPT !.transcript = None,
                                                         !.summary = None]
             ELSE session_state' = session_state]_vars

\* a run whose Process click found no audio has finished
ProcessWithoutAudioDone ==
    /\ Finished
    /\ clicked
    /\ "Please upload or record audio before processing" \in msgs
    /\ session_state.audio_data_for_processing = None
    /\ ~Called("stage")

-----------------------------------------------------------------------------
(* A concurrently running session on the same host.  It shares only the     *)
(* temp directory with this session; of its script runs, the creation of a  *)
(* staged file and the removal of that file by its own finally block are    *)
(* modelled, one staging operation at a time.                               *)

\* tempfile.NamedTemporaryFile(delete=False) in the other session
OtherSessionStage ==
    /\ \A q \in Paths : fs[q] # "other"
    /\ \E p \in FreePaths : fs' = [fs EXCEPT ![p] = "other"]
    /\ UNCHANGED <<variant, audio_source_option, uploaded_file, recorded,
                   clicked, session_state, pc, temp_path,
                   current_wav_temp_path, temp_file, transcript, msgs,
                   panels, crashed, log, pdf>>

\* os.remove of its staged file in the other session
OtherSessionCleanup ==
    /\ \E p \in Paths :
          /\ fs[p] = "other"
          /\ fs' = [fs EXCEPT ![p] = NoFile]
    /\ UNCHANGED <<variant, audio_source_option, uploaded_file, recorded,
                   clicked, session_state, pc, temp_path,
                   current_wav_temp_path, temp_file, transcript, msgs,
                   panels, crashed, log, pdf>>

NextConc ==
    \/ Next
    \/ OtherSessionStage
    \/ OtherSessionCleanup

SpecConc == Init /\ [][NextConc]_vars

\* the step is the cleanup block of the staging operation that created a
\* file labelled owner
CleanupStepOf(owner) ==
    CASE owner = "upload" -> pc = "upload_finally" /\ pc' # pc
      [] owner = "process" -> pc = "proc_finally" /\ pc' # pc
      [] OTHER -> pc' = pc

\* C11: in every interleaving of the staging operations of this session and
\* of a concurrent session, a path that holds a staged file is not handed to
\* another staging operation, and a staged file is removed only by the
\* cleanup of the staging operation that created it.
StagedPathsNotShared ==
    [][\A p \in Paths :
          /\ (fs[p] # NoFile /\ fs'[p] # NoFile) => fs'[p] = fs[p]
          /\ (fs[p] # NoFile /\ fs'[p] = NoFile) => CleanupStepOf(fs[p])]_vars

====
